---- MODULE Spec2Model ----
(***************************************************************************)
(* Model of code/cleaning/01_clean_tse_data.py: the TSE cleaning pipeline  *)
(* that loads party ideologies, loads each election year's vote records,   *)
(* computes the Esteban-Ray polarization index per municipality and writes *)
(* the sorted table.                                                       *)
(*                                                                         *)
(* Number representation.                                                  *)
(*  - Ideology scores are held in tenths (8.5 is 85); NaN is the           *)
(*    out-of-scale value -1.                                               *)
(*  - A vote share is the exact rational [num, den]; den = 0 is the NaN    *)
(*    that pandas yields for 0 / 0.  All shares of one group carry the     *)
(*    group total as their common denominator.                             *)
(*  - x ** 2.6 is evaluated in fixed point: Pow26(v) is 10 * v^2.6         *)
(*    truncated (v^2 times the integer fifth root of v^3 * 10^5).          *)
(*  - polarizacao_er is held in fixed point, truncated.                    *)
(***************************************************************************)
EXTENDS Integers, Sequences, FiniteSets, TLC

VARIABLES pc, ideology_df, year_idx, votes_df, all_results,
          missing_log, final_df, written, loaded, computed, failure

vars == <<pc, ideology_df, year_idx, votes_df, all_results,
          missing_log, final_df, written, loaded, computed, failure>>

----------------------------------------------------------------------------
(* Bounds of the model *)

\* most vote records in a year's vote table handed to the calculation
MaxRecords == 3
\* largest QT_VOTOS of one vote record
MaxVotes == 1
\* most vote records in a year's raw vote file in the whole-run specification
MaxFileRecords == 1

\* municipality codes
Municipios == {11, 12}
\* party codes in vote data: one of the 2018 additions, one outside them
Partidos == {"PSL", "PT"}
\* rows a base ideology file may hold
BaseRows ==
    [party : {"PT", "PSL"}, ideology : {20}, year : {2014, 2018}]
\* base ideology files: empty, or one row
BaseTables == {<<>>} \cup {<<r>> : r \in BaseRows}

----------------------------------------------------------------------------
(* Program constants *)

ELECTION_YEARS == <<2010, 2014, 2018, 2022>>

PARTY_IDEOLOGY_2018_ADDITIONS ==
    << [party |-> "PSL",   ideology |-> 85],
       [party |-> "NOVO",  ideology |-> 90],
       [party |-> "PATRI", ideology |-> 50],
       [party |-> "PODE",  ideology |-> 45],
       [party |-> "PMN",   ideology |-> 55] >>

\* the normalization constant K of esteban_ray_index
K == 1

NaN == -1

----------------------------------------------------------------------------
(* Sequence helpers that stand for pandas / numpy primitives *)

RECURSIVE SumSeq(_)
SumSeq(s) == IF s = <<>> THEN 0 ELSE Head(s) + SumSeq(Tail(s))

RECURSIVE ConcatAll(_)
\* pd.concat(frames, ignore_index=True)
ConcatAll(frames) ==
    IF frames = <<>> THEN <<>> ELSE Head(frames) \o ConcatAll(Tail(frames))

RECURSIVE Unique(_)
\* Series.unique(): distinct values in order of first appearance
Unique(s) ==
    IF s = <<>> THEN <<>>
    ELSE LET rest == Unique(SubSeq(s, 1, Len(s) - 1))
             x    == s[Len(s)]
         IN  IF \E k \in 1..Len(rest) : rest[k] = x THEN rest
             ELSE Append(rest, x)

RECURSIVE SortedKeys(_)
\* the group keys of a groupby, ascending
SortedKeys(S) ==
    IF S = {} THEN <<>>
    ELSE LET m == CHOOSE x \in S : \A y \in S : x <= y
         IN  <<m>> \o SortedKeys(S \ {m})

Abs(x) == IF x < 0 THEN -x ELSE x

\* integer fifth root
Root5(n) == CHOOSE r \in 0..72 : r^5 <= n /\ n < (r + 1)^5

\* 10 * v ** 2.6, truncated  (1 + alpha = 2.6 = 2 + 3/5)
Pow26(v) == v * v * Root5(v * v * v * 100000)

----------------------------------------------------------------------------
(* esteban_ray_index *)

\* the one place where an ideological distance is taken
Distance(p, q) == Abs(p - q)

RECURSIVE PairSum(_, _, _, _)
\* the double loop over i, j of esteban_ray_index, as a sum over k = (i, j)
\* enumerated row-major; terms with i = j are skipped
PairSum(a, p, n, k) ==
    IF k > n * n THEN 0
    ELSE LET i == ((k - 1) \div n) + 1
             j == ((k - 1) % n) + 1
         IN  (IF i # j THEN Pow26(a[i]) * a[j] * Distance(p[i], p[j]) ELSE 0)
             + PairSum(a, p, n, k + 1)

\* indices kept by mask = vote_shares > 0 (a NaN share compares False)
Mask(vote_shares) ==
    LET keep(i) == vote_shares[i].den > 0 /\ vote_shares[i].num > 0
        RECURSIVE Idx(_)
        Idx(i) == IF i > Len(vote_shares) THEN <<>>
                  ELSE (IF keep(i) THEN <<i>> ELSE <<>>) \o Idx(i + 1)
    IN  Idx(1)

esteban_ray_index(vote_shares, ideologies) ==
    LET mask  == Mask(vote_shares)
        n     == Len(mask)
        \* numerators of the kept shares; vote_shares.sum() is S / den, so
        \* the renormalized share i is a[i] / S
        a     == [i \in 1..n |-> vote_shares[mask[i]].num]
        p     == [i \in 1..n |-> ideologies[mask[i]]]
        S     == SumSeq(a)
    IN  IF n = 0 THEN 0
        ELSE K * ((PairSum(a, p, n, 1) * 1000) \div (Pow26(S) * S))

----------------------------------------------------------------------------
(* load_party_ideologies *)

\* the DataFrame of the 2018 additions, in dictionary order
Additions ==
    [k \in 1..Len(PARTY_IDEOLOGY_2018_ADDITIONS) |->
        [party    |-> PARTY_IDEOLOGY_2018_ADDITIONS[k].party,
         ideology |-> PARTY_IDEOLOGY_2018_ADDITIONS[k].ideology,
         year     |-> 2018]]

\* pd.concat([ideology_df, additions]) of the rows read from the base file
load_party_ideologies(base) == base \o Additions

----------------------------------------------------------------------------
(* load_tse_data *)

CHUNK_SIZE == 100000

RECURSIVE Chunks(_)
\* the chunks read_csv yields with chunksize=CHUNK_SIZE
Chunks(rows) ==
    IF rows = <<>> THEN <<>>
    ELSE IF Len(rows) <= CHUNK_SIZE THEN <<rows>>
    ELSE <<SubSeq(rows, 1, CHUNK_SIZE)>>
         \o Chunks(SubSeq(rows, CHUNK_SIZE + 1, Len(rows)))

\* chunk[(DS_CARGO == 'Presidente') & (NR_TURNO == 1)]
FilterChunk(chunk) ==
    LET keep(r) == r.DS_CARGO = "Presidente" /\ r.NR_TURNO = 1
    IN  SelectSeq(chunk, keep)

\* the primary path: every chunk filtered, then concatenated
ReadPrimary(rows) ==
    LET chunks == Chunks(rows)
    IN  ConcatAll([k \in 1..Len(chunks) |-> FilterChunk(chunks[k])])

\* the except branch: the whole file as read under iso-8859-1
ReadFallback(rows) == rows

----------------------------------------------------------------------------
(* calculate_municipality_polarization *)

\* ideology_df[ideology_df['year'] == year]
IdeologyYear(idf, year) ==
    LET keep(r) == r.year = year
    IN  SelectSeq(idf, keep)

\* the rows a left merge yields for one vote record: one per matching
\* ideology row, or one with a NaN ideology when none matches
JoinRow(v, idy) ==
    LET match(r) == r.party = v.SG_PARTIDO
        m == SelectSeq(idy, match)
        row(x) == [CD_MUNICIPIO |-> v.CD_MUNICIPIO, SG_PARTIDO |-> v.SG_PARTIDO,
                   QT_VOTOS |-> v.QT_VOTOS, DS_CARGO |-> v.DS_CARGO,
                   NR_TURNO |-> v.NR_TURNO, ideology |-> x]
    IN  IF m = <<>> THEN <<row(NaN)>>
        ELSE [k \in 1..Len(m) |-> row(m[k].ideology)]

RECURSIVE Merge(_, _)
\* votes_df.merge(ideology_year, left_on='SG_PARTIDO', right_on='party', how='left')
Merge(votes, idy) ==
    IF votes = <<>> THEN <<>>
    ELSE JoinRow(Head(votes), idy) \o Merge(Tail(votes), idy)

\* MissingParties without the unique(): one entry per affected record
MissingPartiesPerRecord(merged) ==
    LET isna(r) == r.ideology = NaN
        rows == SelectSeq(merged, isna)
    IN  [k \in 1..Len(rows) |-> rows[k].SG_PARTIDO]

\* merged[merged['ideology'].isna()]['SG_PARTIDO'].unique()
MissingParties(merged) ==
    LET isna(r) == r.ideology = NaN
        rows == SelectSeq(merged, isna)
    IN  Unique([k \in 1..Len(rows) |-> rows[k].SG_PARTIDO])

\* Dropna that drops nothing
DropnaKeepsAll(merged) == merged

\* merged.dropna(subset=['ideology'])
Dropna(merged) ==
    LET notna(r) == r.ideology # NaN
    IN  SelectSeq(merged, notna)

\* the rows of one group of merged.groupby('CD_MUNICIPIO')
Group(merged, municipio) ==
    LET in(r) == r.CD_MUNICIPIO = municipio
    IN  SelectSeq(merged, in)

\* merged.groupby('CD_MUNICIPIO')['QT_VOTOS'].sum()
MunicipalityTotals(merged) ==
    [m \in {merged[k].CD_MUNICIPIO : k \in 1..Len(merged)} |->
        LET g == Group(merged, m)
        IN  SumSeq([k \in 1..Len(g) |-> g[k].QT_VOTOS])]

\* the vote_share column of one group: x / x.sum()
VoteShares(group) ==
    LET total == SumSeq([k \in 1..Len(group) |-> group[k].QT_VOTOS])
    IN  [k \in 1..Len(group) |-> [num |-> group[k].QT_VOTOS, den |-> total]]

\* merged, after the join and the dropna
Merged(votes, idf, year) == Dropna(Merge(votes, IdeologyYear(idf, year)))

\* the row appended to polarization_results for one group
ResultRow(merged, totals, municipio, year) ==
    LET group == Group(merged, municipio)
    IN  [cod_municipio  |-> municipio,
         ano            |-> year,
         polarizacao_er |-> esteban_ray_index(VoteShares(group),
                               [k \in 1..Len(group) |-> group[k].ideology]),
         num_partidos   |-> Len(group),
         total_votos    |-> totals[municipio]]

calculate_municipality_polarization(votes, idf, year) ==
    LET merged == Merged(votes, idf, year)
        totals == MunicipalityTotals(merged)
        keys   == SortedKeys(DOMAIN totals)
    IN  [k \in 1..Len(keys) |-> ResultRow(merged, totals, keys[k], year)]

\* the party codes logged by the missing-ideology warning of one call
MissingWarning(votes, idf, year) ==
    MissingParties(Merge(votes, IdeologyYear(idf, year)))

----------------------------------------------------------------------------
(* main *)

RowLeq(r, s) ==
    \/ r.cod_municipio < s.cod_municipio
    \/ r.cod_municipio = s.cod_municipio /\ r.ano <= s.ano

RECURSIVE Insert(_, _)
Insert(r, sorted) ==
    IF sorted = <<>> THEN <<r>>
    ELSE IF RowLeq(Head(sorted), r) THEN <<Head(sorted)>> \o Insert(r, Tail(sorted))
    ELSE <<r>> \o sorted

\* SortValues that leaves the rows in the order of concatenation
SortValuesKeepsOrder(rows) == rows

RECURSIVE SortValues(_)
\* final_df.sort_values(['cod_municipio', 'ano'])
SortValues(rows) ==
    IF rows = <<>> THEN <<>>
    ELSE Insert(rows[Len(rows)], SortValues(SubSeq(rows, 1, Len(rows) - 1)))

Year == ELECTION_YEARS[year_idx]

\* where the for loop of main goes after one year's results are appended
AfterYear == IF year_idx = Len(ELECTION_YEARS) THEN "combine" ELSE "load"

\* VoteLoadFailure that skips the failing year and goes on with the loop
VoteLoadFailureSkipsYear ==
    /\ pc' = AfterYear
    /\ year_idx' = IF year_idx = Len(ELECTION_YEARS) THEN year_idx
                   ELSE year_idx + 1
    /\ failure' = "votes"
    /\ UNCHANGED <<ideology_df, votes_df, all_results, missing_log, final_df,
                   written, loaded, computed>>

\* an exception raised by load_tse_data is not caught in main: the run ends
VoteLoadFailure ==
    /\ pc' = "aborted"
    /\ failure' = "votes"
    /\ UNCHANGED <<ideology_df, year_idx, votes_df, all_results,
                   missing_log, final_df, written, loaded, computed>>

\* raw vote files of the whole-run specification
\* (office, round) of a raw record: the presidential first round, another
\* office, the presidential second round
Contests ==
    {<<"Presidente", 1>>, <<"Governador", 1>>, <<"Presidente", 2>>}

RawRecords ==
    {[CD_MUNICIPIO |-> m, SG_PARTIDO |-> p, QT_VOTOS |-> 1,
      DS_CARGO |-> c[1], NR_TURNO |-> c[2]] :
        m \in Municipios, p \in Partidos, c \in Contests}

RawFiles == UNION {[1..n -> RawRecords] : n \in 0..MaxFileRecords}

\* ideology_df = load_party_ideologies(), or its read_csv raises
LoadPartyIdeologies ==
    /\ pc = "start"
    /\ \/ \E base \in BaseTables :
             /\ ideology_df' = load_party_ideologies(base)
             /\ pc' = "load"
             /\ UNCHANGED failure
       \/ /\ pc' = "aborted"
          /\ failure' = "ideology"
          /\ UNCHANGED ideology_df
    /\ UNCHANGED <<year_idx, votes_df, all_results, missing_log,
                   final_df, written, loaded, computed>>

Loaded(rows) ==
    /\ votes_df' = rows
    /\ loaded' = Append(loaded, Year)
    /\ pc' = "calc"
    /\ UNCHANGED <<ideology_df, year_idx, all_results, missing_log, final_df,
                   written, computed, failure>>

\* votes_df = load_tse_data(year)
LoadTseData ==
    /\ pc = "load"
    /\ \/ \E file \in RawFiles : Loaded(ReadPrimary(file))
       \/ \E file \in RawFiles : Loaded(ReadFallback(file))
       \/ VoteLoadFailure

\* polarization_df = calculate_municipality_polarization(...);
\* all_results.append(polarization_df)
Calculate ==
    /\ pc = "calc"
    /\ all_results' = Append(all_results,
           calculate_municipality_polarization(votes_df, ideology_df, Year))
    /\ missing_log' = Append(missing_log,
           MissingWarning(votes_df, ideology_df, Year))
    /\ computed' = Append(computed, Year)
    /\ pc' = AfterYear
    /\ year_idx' = IF year_idx = Len(ELECTION_YEARS) THEN year_idx
                   ELSE year_idx + 1
    /\ UNCHANGED <<ideology_df, votes_df, final_df, written, loaded,
                   failure>>

\* pd.concat, sort_values, to_csv.  With no result row at all the frame has
\* no columns and sort_values raises KeyError before anything is written.
Combine ==
    /\ pc = "combine"
    /\ LET rows == ConcatAll(all_results)
       IN  \/ /\ rows # <<>>
              /\ final_df' = SortValues(rows)
              /\ written' = TRUE
              /\ pc' = "done"
              /\ UNCHANGED failure
           \/ /\ rows = <<>>
              /\ pc' = "aborted"
              /\ failure' = "sort"
              /\ UNCHANGED <<final_df, written>>
    /\ UNCHANGED <<ideology_df, year_idx, votes_df, all_results,
                   missing_log, loaded, computed>>

Init ==
    /\ pc = "start"
    /\ ideology_df = <<>>
    /\ year_idx = 1
    /\ votes_df = <<>>
    /\ all_results = <<>>
    /\ missing_log = <<>>
    /\ final_df = <<>>
    /\ written = FALSE
    /\ loaded = <<>>
    /\ computed = <<>>
    /\ failure = "none"

Next == LoadPartyIdeologies \/ LoadTseData \/ Calculate \/ Combine

Spec == Init /\ [][Next]_vars

----------------------------------------------------------------------------
(* The calculation alone: one call of calculate_municipality_polarization  *)
(* on every vote table and ideology table within the bounds.  The years    *)
(* before the one computed had empty vote tables.                          *)

CalcRecords ==
    [CD_MUNICIPIO : Municipios, SG_PARTIDO : Partidos, QT_VOTOS : 0..MaxVotes,
     DS_CARGO : {"Presidente"}, NR_TURNO : {1}]

CalcVotes == UNION {[1..n -> CalcRecords] : n \in 0..MaxRecords}

\* positions in ELECTION_YEARS of the years computed: 2014 and 2018
CalcYears == {2, 3}

InitCalc ==
    /\ pc = "calc"
    /\ ideology_df \in {load_party_ideologies(b) : b \in BaseTables}
    /\ year_idx \in CalcYears
    /\ votes_df \in CalcVotes
    /\ all_results = [k \in 1..(year_idx - 1) |-> <<>>]
    /\ missing_log = [k \in 1..(year_idx - 1) |-> <<>>]
    /\ final_df = <<>>
    /\ written = FALSE
    /\ loaded = SubSeq(ELECTION_YEARS, 1, year_idx)
    /\ computed = SubSeq(ELECTION_YEARS, 1, year_idx - 1)
    /\ failure = "none"

NextCalc == Calculate

SpecCalc == InitCalc /\ [][NextCalc]_vars

----------------------------------------------------------------------------
(* Vocabulary of the properties *)

\* a year has been computed and votes_df is still that year's vote table
JustComputed == computed # <<>> /\ pc # "calc"

LastYear    == computed[Len(computed)]
LastResult  == all_results[Len(all_results)]
LastMissing == missing_log[Len(missing_log)]

\* the ideology table has an entry for (party, year)
HasIdeology(party, year) ==
    \E k \in 1..Len(ideology_df) :
        ideology_df[k].party = party /\ ideology_df[k].year = year

\* votes of one party in one municipality of the last computed year
PartyVotes(municipio, party) ==
    LET of(v) == v.CD_MUNICIPIO = municipio /\ v.SG_PARTIDO = party
        rows  == SelectSeq(votes_df, of)
    IN  SumSeq([k \in 1..Len(rows) |-> rows[k].QT_VOTOS])

\* the distinct qualifying parties of a municipality: an ideology entry for
\* the year and a non-zero vote share
QualifyingParties(municipio) ==
    {p \in {votes_df[k].SG_PARTIDO : k \in 1..Len(votes_df)} :
        HasIdeology(p, LastYear) /\ PartyVotes(municipio, p) > 0}

\* the ideology table gives every (party, year) at most one row
UniqueTable ==
    \A i, j \in 1..Len(ideology_df) :
        (ideology_df[i].party = ideology_df[j].party
         /\ ideology_df[i].year = ideology_df[j].year) => i = j

\* the one ideology value of a party in the last computed year
IdeologyOf(party) ==
    LET k == CHOOSE k \in 1..Len(ideology_df) :
                 ideology_df[k].party = party /\ ideology_df[k].year = LastYear
    IN  ideology_df[k].ideology

RECURSIVE SeqOf(_)
\* the members of a finite set, in some order
SeqOf(S) ==
    IF S = {} THEN <<>>
    ELSE LET x == CHOOSE x \in S : TRUE
         IN  <<x>> \o SeqOf(S \ {x})

\* the Esteban-Ray double sum over the distinct qualifying parties of a
\* municipality, party i's share being its total votes in the group over
\* the group's total qualifying votes
IndexOverParties(municipio) ==
    LET ps     == SeqOf(QualifyingParties(municipio))
        total  == SumSeq([k \in 1..Len(ps) |-> PartyVotes(municipio, ps[k])])
        shares == [k \in 1..Len(ps) |->
                      [num |-> PartyVotes(municipio, ps[k]), den |-> total]]
        ideols == [k \in 1..Len(ps) |-> IdeologyOf(ps[k])]
    IN  esteban_ray_index(shares, ideols)

\* the rows of a frame, as a set
Rows(frame) == {frame[k] : k \in 1..Len(frame)}

----------------------------------------------------------------------------
(* Claims *)

\* C1: for every municipality-year group produced, the polarization index is
\* the Esteban-Ray double sum over the group's distinct qualifying parties
\* with per-party vote totals as shares (so that it does not depend on how a
\* party's votes are split over vote records).  Stated for ideology tables
\* that give each party one value, where the sum over parties is defined.
C1_IndexOverDistinctParties ==
    (JustComputed /\ UniqueTable) =>
        \A r \in Rows(LastResult) :
            r.polarizacao_er = IndexOverParties(r.cod_municipio)

\* C2: for every output row, num_partidos is the number of distinct
\* qualifying parties of the group (ideology entry for the year, non-zero
\* vote share), for any number of vote records per party.
C2_PartyCountIsDistinctParties ==
    JustComputed =>
        \A r \in Rows(LastResult) :
            r.num_partidos = Cardinality(QualifyingParties(r.cod_municipio))

\* C3: on every path through load_tse_data only records with office
\* 'Presidente' and round 1 reach calculate_municipality_polarization.
C3_OnlyPresidentFirstRound ==
    pc = "calc" =>
        \A v \in Rows(votes_df) : v.DS_CARGO = "Presidente" /\ v.NR_TURNO = 1

\* C4: the ideology table holds at most one value per (party, year), and the
\* ideology join attaches exactly one value to each vote record, never
\* duplicating a vote record.
C4_OneIdeologyPerPartyYear ==
    /\ (pc # "start" /\ failure # "ideology") => UniqueTable
    /\ JustComputed =>
           Len(Merge(votes_df, IdeologyYear(ideology_df, LastYear)))
               = Len(votes_df)

\* C5: for every group that remains after the unmatched parties are dropped,
\* the vote shares handed to the index computation sum to 1, groups whose
\* remaining records all have zero votes included.
C5_SharesSumToOne ==
    JustComputed =>
        LET merged == Merged(votes_df, ideology_df, LastYear)
        IN  \A m \in DOMAIN MunicipalityTotals(merged) :
                LET sh == VoteShares(Group(merged, m))
                IN  /\ \A k \in 1..Len(sh) : sh[k].den > 0
                    /\ SumSeq([k \in 1..Len(sh) |-> sh[k].num]) = sh[1].den

\* C7: a group with exactly one qualifying party yields an index of
\* exactly 0, for every vote count, ideology value and number of records.
C7_SinglePartyIndexZero ==
    JustComputed =>
        \A r \in Rows(LastResult) :
            Cardinality(QualifyingParties(r.cod_municipio)) = 1
                => r.polarizacao_er = 0

\* the vote records of the last computed year whose party has an ideology
\* entry for that year
MatchedRecords ==
    LET kept(v) == HasIdeology(v.SG_PARTIDO, LastYear)
    IN  SelectSeq(votes_df, kept)

\* the (municipality, year) keys of a frame of result rows, in row order
Keys(frame) ==
    [k \in 1..Len(frame) |-> <<frame[k].cod_municipio, frame[k].ano>>]

\* a sequence holds no value twice
NoRepeat(s) == \A i, j \in 1..Len(s) : s[i] = s[j] => i = j

\* C6: the output holds exactly one row for each (municipality, year) that
\* has at least one vote record with a matched ideology, none for a
\* (municipality, year) all of whose records the join dropped, and no
\* (municipality, year) twice.  Each year's rows are compared with that
\* year's vote table when the year is computed; the written table holds
\* exactly the rows of all years.
C6_OneRowPerMatchedMunicipalityYear ==
    /\ JustComputed =>
          /\ {r.cod_municipio : r \in Rows(LastResult)}
                 = {v.CD_MUNICIPIO : v \in Rows(MatchedRecords)}
          /\ \A r \in Rows(LastResult) : r.ano = LastYear
          /\ NoRepeat(Keys(LastResult))
    /\ written =>
          /\ NoRepeat(Keys(final_df))
          /\ Len(final_df) = Len(ConcatAll(all_results))
          /\ Rows(final_df) = Rows(ConcatAll(all_results))

\* C6 witness: a table was written with rows of two years, and the last
\* year's vote table had a municipality whose records were all dropped
C6_Witness ==
    /\ written
    /\ Len(final_df) >= 2
    /\ \E r, q \in Rows(final_df) : r.ano # q.ano
    /\ \E v \in Rows(votes_df) :
           /\ ~HasIdeology(v.SG_PARTIDO, LastYear)
           /\ \A r \in Rows(final_df) :
                  <<r.cod_municipio, r.ano>> # <<v.CD_MUNICIPIO, LastYear>>

\* C8: the written output is sorted by (municipality code, year): of two
\* consecutive rows the municipality code is non-decreasing and, for equal
\* codes, the year is non-decreasing.
C8_OutputSorted ==
    written =>
        \A k \in 1..(Len(final_df) - 1) :
            \/ final_df[k].cod_municipio < final_df[k + 1].cod_municipio
            \/ /\ final_df[k].cod_municipio = final_df[k + 1].cod_municipio
               /\ final_df[k].ano <= final_df[k + 1].ano

\* C8 witness: a table was written whose rows were not produced in order
C8_Witness ==
    /\ written
    /\ Len(final_df) >= 2
    /\ final_df # ConcatAll(all_results)

\* C9: a party present in a year's vote data and absent from the ideology
\* table for that year is in that year's warning list exactly once, however
\* many records or municipalities it has; its records are excluded (the
\* year's result is that of the vote table without them); and the run goes
\* on to the next year.
C9_MissingPartyWarnedOnce ==
    JustComputed =>
        LET absent == {v.SG_PARTIDO : v \in Rows(votes_df)}
                          \ {p \in Partidos : HasIdeology(p, LastYear)}
        IN  /\ \A p \in absent :
                   Cardinality({k \in 1..Len(LastMissing) : LastMissing[k] = p}) = 1
            /\ Rows(LastMissing) \subseteq absent
            /\ LastResult = calculate_municipality_polarization(
                                MatchedRecords, ideology_df, LastYear)
            /\ failure = "none" => pc \in {"load", "combine", "done"}

\* C9 witness: a party without ideology entry had records in two
\* municipalities, was warned about, another party produced a row, and the
\* next year is about to be loaded
C9_Witness ==
    /\ JustComputed
    /\ pc = "load"
    /\ LastResult # <<>>
    /\ Len(LastMissing) = 1
    /\ \E v, w \in Rows(votes_df) :
           /\ v.SG_PARTIDO = w.SG_PARTIDO
           /\ v.CD_MUNICIPIO # w.CD_MUNICIPIO
           /\ ~HasIdeology(v.SG_PARTIDO, LastYear)

\* position of a year in ELECTION_YEARS
IndexOf(year) == CHOOSE k \in 1..Len(ELECTION_YEARS) : ELECTION_YEARS[k] = year

\* C10: a fatal load error ends the run.  If the ideology base file cannot
\* be read no year is processed; if a year's vote file cannot be read no
\* later year is processed; in both cases nothing is written.  The output
\* is written only after every year of ELECTION_YEARS was loaded and
\* computed, in order.
C10_FatalLoadErrorAborts ==
    /\ failure = "ideology" =>
           loaded = <<>> /\ computed = <<>> /\ ~written /\ pc = "aborted"
    /\ failure = "votes" =>
           /\ ~written
           /\ pc = "aborted"
           /\ \A y \in Rows(loaded) \cup Rows(computed) : IndexOf(y) < year_idx
    /\ written => loaded = ELECTION_YEARS /\ computed = ELECTION_YEARS

\* C10 witness: the vote file of the third year could not be read after two
\* years had been computed
C10_Witness ==
    /\ failure = "votes"
    /\ year_idx = 3
    /\ computed = SubSeq(ELECTION_YEARS, 1, 2)
    /\ ~written

\* Support for C7: with an ideology table that gives each (party, year) one
\* row, a single qualifying party does yield index 0.
SinglePartyIndexZeroUnderUniqueTable ==
    UniqueTable => C7_SinglePartyIndexZero

====
